---- MODULE Spec2Model ----
(***************************************************************************)
(* A model of ConditionalSphericalGaussianSimulator                        *)
(* (src/experiments/datasets/conditional_spherical_simulator.py).          *)
(*                                                                         *)
(* Numbers.  numpy's floating point is replaced by exact arithmetic on a   *)
(* grid on which every operation of the code is exact:                     *)
(*  - an angle is an integer in units of pi/6 (Pi = 6).  The sines and     *)
(*    cosines are taken from the 3-4-5 triangle: the grid points 1 and 2   *)
(*    of every quadrant stand for the angles arcsin(3/5) and arcsin(4/5)   *)
(*    (36.9 and 53.1 degrees) instead of 30 and 60 degrees, so that sin    *)
(*    and cos are the rationals 0, 3/5, 4/5, 1 up to sign.  The grid is    *)
(*    closed under everything the code does to a latent angle: reduction   *)
(*    modulo 2 pi, negation, reflection 2 pi - a, shifts by 2 pi and the   *)
(*    comparison with pi;                                                  *)
(*  - a real (a coordinate of x, a noise value, a radius) of a simulator   *)
(*    with latent dimension k is an integer numerator over Den(k) = 5^k;   *)
(*  - NaN is numpy's nan: it propagates through every operation;           *)
(*  - a parameter component is an integer in units of 1/ParamScale;        *)
(*    widths and phases returned by _parse_parameters are in units of      *)
(*    pi / (6 * ParseScale).                                               *)
(***************************************************************************)
EXTENDS Integers, Sequences, FiniteSets, TLC

VARIABLES sim, x, parameters, z, result

vars == <<sim, x, parameters, z, result>>

(***************************************************************************)
(* Bounds of the model.                                                    *)
(***************************************************************************)
MaxN == 2
MaxDataDim == 3
MaxCells == 4

(***************************************************************************)
(* Numeric representation.                                                 *)
(***************************************************************************)
Pi == 6
TwoPi == 2 * Pi
HalfPi == Pi \div 2
TrigDen == 5
ParamScale == 2
ParseScale == 2 * ParamScale
NaN == -999999

Den(k) == TrigDen ^ k

SinTab == <<0, 3, 4, 5, 4, 3, 0, -3, -4, -5, -4, -3>>
CosTab == <<5, 4, 3, 0, -3, -4, -5, -4, -3, 0, 3, 4>>

Abs(v) == IF v < 0 THEN -v ELSE v

RAdd(a, b) == IF a = NaN \/ b = NaN THEN NaN ELSE a + b
RSub(a, b) == IF a = NaN \/ b = NaN THEN NaN ELSE a - b
RMul(a, b, den) == IF a = NaN \/ b = NaN THEN NaN ELSE (a * b) \div den
RLess(a, b) == a # NaN /\ b # NaN /\ a < b

np_sin(a, den) == IF a = NaN THEN NaN ELSE SinTab[(a % TwoPi) + 1] * (den \div TrigDen)
np_cos(a, den) == IF a = NaN THEN NaN ELSE CosTab[(a % TwoPi) + 1] * (den \div TrigDen)
np_mod(a, m) == IF a = NaN THEN NaN ELSE a % m

RECURSIVE SqrtSearch(_, _, _)
SqrtSearch(lo, hi, v) ==
    IF lo >= hi THEN lo
    ELSE LET mid == (lo + hi + 1) \div 2
         IN IF mid <= v \div mid THEN SqrtSearch(mid, hi, v) ELSE SqrtSearch(lo, mid - 1, v)

\* v ** 0.5 for v >= 0; every root the model takes is the root of a perfect square
np_sqrt(v) == IF v = NaN THEN NaN ELSE SqrtSearch(0, v, v)

RECURSIVE SumSq(_, _, _)
SumSq(row, lo, hi) ==
    IF lo > hi THEN 0
    ELSE LET rest == SumSq(row, lo + 1, hi)
         IN IF row[lo] = NaN \/ rest = NaN THEN NaN ELSE row[lo] * row[lo] + rest

\* np.sum(row[lo..hi] ** 2) ** 0.5, at the scale of row
Norm(row, lo, hi) == np_sqrt(SumSq(row, lo, hi))

\* np.arccos(num / nrm): 0/0 is nan; otherwise the angle of [0, pi] with that cosine
ArcCosDiv(num, nrm) ==
    IF num = NaN \/ nrm = NaN \/ nrm = 0 THEN NaN
    ELSE CHOOSE a \in 0..Pi :
            \A b \in 0..Pi :
                LET da == Abs(CosTab[a + 1] * nrm - TrigDen * num)
                    db == Abs(CosTab[b + 1] * nrm - TrigDen * num)
                IN da < db \/ (da = db /\ a <= b)

RECURSIVE Prod(_, _, _)
Prod(row, j, den) == IF j = 0 THEN den ELSE RMul(Prod(row, j - 1, den), row[j], den)

np_cumprod(row, den) == [j \in 1..Len(row) |-> Prod(row, j, den)]

Flatten(arr, w) ==
    [i \in 1..(Len(arr) * w) |-> arr[((i - 1) \div w) + 1][((i - 1) % w) + 1]]

Reshape(flat, n, w) == [i \in 1..n |-> [j \in 1..w |-> flat[(i - 1) * w + j]]]

\* np.roll(arr, shift) without an axis: the array is flattened, rolled and reshaped
np_roll(arr, shift, w) ==
    IF Len(arr) = 0 THEN arr
    ELSE LET flat == Flatten(arr, w)
             len == Len(flat)
         IN Reshape([i \in 1..len |-> flat[((i - 1 - shift) % len) + 1]], Len(arr), w)

(***************************************************************************)
(* _transform_z_to_x: the forward embedding.                               *)
(***************************************************************************)
SinsFirstOne(row, den) == [j \in 1..Len(row) |-> IF j = 1 THEN den ELSE np_sin(row[j], den)]

RollCoss(coss, w) == np_roll(coss, -1, w)

_transform_z_to_x(z_phi, z_eps, k, den) ==
    LET n == Len(z_phi)
        r == [i \in 1..n |-> RAdd(den, z_eps[i][1])]
        a == [i \in 1..n |-> <<TwoPi>> \o z_phi[i]]
        sins == [i \in 1..n |-> np_cumprod(SinsFirstOne(a[i], den), den)]
        coss == RollCoss([i \in 1..n |-> [j \in 1..(k + 1) |-> np_cos(a[i][j], den)]], k + 1)
        exact_sphere == [i \in 1..n |-> [j \in 1..(k + 1) |-> RMul(sins[i][j], coss[i][j], den)]]
        fuzzy_sphere == [i \in 1..n |-> [j \in 1..(k + 1) |-> RMul(exact_sphere[i][j], r[i], den)]]
    IN [i \in 1..n |-> fuzzy_sphere[i] \o Tail(z_eps[i])]

(***************************************************************************)
(* _transform_x_to_z: the inverse embedding.  It returns the latent angles,*)
(* the noise vector and the caller's array xbuf as the call leaves it.     *)
(***************************************************************************)
\* a slice taken without np.copy: a view of the caller's array
np_view(arr) == [alias |-> TRUE, data |-> arr]

\* np.copy: a fresh buffer that shares nothing with its argument
np_copy(arr) == [alias |-> FALSE, data |-> arr]

\* LastAngle without the sign correction of the last component
LastAngle_NoCorrection(v, xlast) == v

LastAngle(v, xlast) == IF RLess(xlast, 0) THEN RSub(TwoPi, v) ELSE v

_transform_x_to_z(xbuf, k, den) ==
    LET n == Len(xbuf)
        z_phi == [i \in 1..n |-> [c \in 1..k |->
                    LET v == ArcCosDiv(xbuf[i][c], Norm(xbuf[i], c, k + 1))
                    IN IF c = k THEN LastAngle(v, xbuf[i][k + 1]) ELSE v]]
        r == [i \in 1..n |-> Norm(xbuf[i], 1, k + 1)]
        ref == np_copy([i \in 1..n |-> SubSeq(xbuf[i], k + 1, Len(xbuf[i]))])
        z_eps == [i \in 1..n |-> [ref.data[i] EXCEPT ![1] = RSub(r[i], den)]]
    IN [z_phi |-> z_phi,
        z_eps |-> z_eps,
        x |-> IF ref.alias THEN [i \in 1..n |-> SubSeq(xbuf[i], 1, k) \o z_eps[i]] ELSE xbuf]

(***************************************************************************)
(* The simulator object.  NoSim: no object (none constructed yet, or the   *)
(* constructor raised).                                                    *)
(***************************************************************************)
NoSim == [constructed |-> FALSE, _latent_dim |-> 0, _data_dim |-> 0, _minphase |-> 0,
          _maxphase |-> 0, _minwidth |-> 0, _maxwidth |-> 0, _epsilon |-> 0]

\* InitAsserts with the epsilon check weakened to epsilon >= 0
InitAsserts_EpsilonNonNegative(latent_dim, data_dim, min_width, max_width, epsilon) ==
    /\ data_dim > latent_dim
    /\ epsilon >= 0
    /\ 0 < min_width /\ min_width < max_width /\ max_width <= TwoPi

\* the three assertions of __init__
InitAsserts(latent_dim, data_dim, min_width, max_width, epsilon) ==
    /\ data_dim > latent_dim
    /\ epsilon > 0
    /\ 0 < min_width /\ min_width < max_width /\ max_width <= TwoPi

\* __init__: the object, or NoSim when an assertion fails
__init__(latent_dim, data_dim, min_width, max_width, epsilon) ==
    IF InitAsserts(latent_dim, data_dim, min_width, max_width, epsilon)
    THEN [constructed |-> TRUE, _latent_dim |-> latent_dim, _data_dim |-> data_dim,
          _minphase |-> HalfPi, _maxphase |-> 3 * HalfPi,
          _minwidth |-> min_width, _maxwidth |-> max_width, _epsilon |-> epsilon]
    ELSE NoSim

parameter_dim == 2

\* a caller's parameter argument: None, or an array given by its flat data
None == [none |-> TRUE, data |-> <<>>]
Array(data) == [none |-> FALSE, data |-> data]

\* a caller's data array: not held yet, or its rows
NoX == [held |-> FALSE, data |-> <<>>]
NoZ == [held |-> FALSE, z_phi |-> <<>>, z_eps |-> <<>>]

(***************************************************************************)
(* _parse_parameters.  pdata is the flat data of the parameters array.     *)
(***************************************************************************)
\* WidthOf interpolating from max_width down
WidthOf_Reversed(s, t0) == ParseScale * s._maxwidth - (ParamScale + t0) * (s._maxwidth - s._minwidth)

WidthOf(s, t0) == ParseScale * s._minwidth + (ParamScale + t0) * (s._maxwidth - s._minwidth)

PhaseOf(s, t1) == ParseScale * s._minphase + (ParamScale + t1) * (s._maxphase - s._minphase)

\* the parameter row that numpy's broadcast assigns to sample i
ParamRow(pdata, m, i) == IF m = 1 THEN 1 ELSE i

_parse_parameters(s, n, pdata) ==
    LET m == Len(pdata) \div parameter_dim
        k == s._latent_dim
        t0(i) == pdata[parameter_dim * (ParamRow(pdata, m, i) - 1) + 1]
        t1(i) == pdata[parameter_dim * (ParamRow(pdata, m, i) - 1) + 2]
    IN IF Len(pdata) % parameter_dim # 0
       THEN [status |-> "ValueError", phases |-> <<>>, widths |-> <<>>]
       ELSE IF m # n /\ m # 1
       THEN [status |-> "ValueError", phases |-> <<>>, widths |-> <<>>]
       ELSE IF k = 0
       THEN [status |-> "IndexError", phases |-> <<>>, widths |-> <<>>]
       ELSE [status |-> "ok",
             phases |-> [i \in 1..n |-> [c \in 1..k |->
                            IF c < k THEN ParseScale * HalfPi ELSE PhaseOf(s, t1(i))]],
             widths |-> [i \in 1..n |-> [c \in 1..k |-> WidthOf(s, t0(i))]]]

(***************************************************************************)
(* _draw_z.  rawPhi and rawEps are the numbers np.random.normal returns:   *)
(* n rows of latent_dim angles and n rows of data_dim - latent_dim noise   *)
(* values (in units of 1).                                                 *)
(***************************************************************************)
_draw_z(s, n, pdata, rawPhi, rawEps) ==
    LET pr == _parse_parameters(s, n, pdata)
        k == s._latent_dim
        d == s._data_dim
    IN IF pr.status # "ok"
       THEN [status |-> pr.status, draws |-> 0, z_phi |-> <<>>, z_eps |-> <<>>]
       ELSE IF \E i \in 1..n : \E c \in 1..k : pr.widths[i][c] < 0
       THEN [status |-> "ValueError", draws |-> 0, z_phi |-> <<>>, z_eps |-> <<>>]
       ELSE [status |-> "ok", draws |-> n * k + n * (d - k),
             z_phi |-> [i \in 1..n |-> [c \in 1..k |-> np_mod(rawPhi[i][c], TwoPi)]],
             z_eps |-> [i \in 1..n |-> [c \in 1..(d - k) |-> rawEps[i][c] * Den(k)]]]

(***************************************************************************)
(* _generate_equivalent_coordinates: the list of arrays the generator      *)
(* yields, and the caller's z_phi as the generator leaves it.              *)
(***************************************************************************)
\* z_phi % (2 pi): a new array
np_mod_array(arr, m) == [alias |-> FALSE, data |-> [i \in 1..Len(arr) |-> [c \in 1..Len(arr[i]) |-> np_mod(arr[i][c], m)]]]

\* FoldPolar left out: polar angles are only reduced modulo 2 pi
FoldPolar_Omitted(a) == a

\* np.where(a > pi, 2 pi - a, a)
FoldPolar(a) == IF RLess(Pi, a) THEN RSub(TwoPi, a) ELSE a

Canonical(arr) ==
    [i \in 1..Len(arr) |-> [c \in 1..Len(arr[i]) |->
        IF c < Len(arr[i]) THEN FoldPolar(arr[i][c]) ELSE arr[i][c]]]

\* arr[:, c]
Column(arr, c) == [i \in 1..Len(arr) |-> arr[i][c]]

\* z = np.copy(arr); z[:, c] = col
SetColumn(arr, c, col) == [i \in 1..Len(arr) |-> [arr[i] EXCEPT ![c] = col[i]]]

Negate(col) == [i \in 1..Len(col) |-> RSub(0, col[i])]
Reflect(col) == [i \in 1..Len(col) |-> RSub(TwoPi, col[i])]
ShiftDown(col) == [i \in 1..Len(col) |-> RAdd(-TwoPi, col[i])]
ShiftUp(col) == [i \in 1..Len(col) |-> RAdd(TwoPi, col[i])]

RECURSIVE PolarVariations(_, _, _)
PolarVariations(zc, dim, k) ==
    IF dim > k - 1 THEN <<>>
    ELSE <<SetColumn(zc, dim, Negate(Column(zc, dim))), SetColumn(zc, dim, Reflect(Column(zc, dim)))>> \o PolarVariations(zc, dim + 1, k)

\* AzimuthalVariations with the downward shift only
AzimuthalVariations_DownOnly(zc, k) == <<SetColumn(zc, k, ShiftDown(Column(zc, k)))>>

AzimuthalVariations(zc, k) == <<SetColumn(zc, k, ShiftDown(Column(zc, k))), SetColumn(zc, k, ShiftUp(Column(zc, k)))>>

_generate_equivalent_coordinates(k, z_phi, precise) ==
    LET ref == np_mod_array(z_phi, TwoPi)
        zc == Canonical(ref.data)
    IN [yields |-> <<zc>> \o PolarVariations(zc, 1, k) \o AzimuthalVariations(zc, k),
        z_phi |-> IF ref.alias THEN zc ELSE z_phi]

(***************************************************************************)
(* _log_density.  The value is kept symbolic: per sample, the points at    *)
(* which the normal densities are evaluated, with their locations and      *)
(* scales, the noise vector, the radius and the angles of the Jacobian.    *)
(***************************************************************************)
_log_density(s, z_phi, z_eps, pdata, precise) ==
    LET n == Len(z_phi)
        k == s._latent_dim
        pr == _parse_parameters(s, n, pdata)
        gen == _generate_equivalent_coordinates(k, z_phi, precise)
    IN IF pr.status # "ok"
       THEN [status |-> pr.status, value |-> <<>>]
       ELSE [status |-> "ok",
             value |-> [i \in 1..n |->
                [p_sub_at |-> [t \in 1..Len(gen.yields) |-> gen.yields[t][i]],
                 loc |-> pr.phases[i], scale |-> pr.widths[i],
                 z_eps |-> z_eps[i], eps_scale |-> s._epsilon,
                 r |-> RAdd(Den(k), z_eps[i][1]),
                 jacobian_at |-> gen.z_phi[i]]]]

(***************************************************************************)
(* The public operations.  Each returns its outcome: the status ("ok" or   *)
(* the exception raised), the value returned, how many random numbers it   *)
(* drew and which helpers it entered.                                      *)
(***************************************************************************)
Raised(status, draws, trace) ==
    [status |-> status, value |-> <<>>, draws |-> draws, trace |-> trace]

\* sample after its assertion
sample_body(s, n, p, rawPhi, rawEps) ==
    LET dz == _draw_z(s, n, p.data, rawPhi, rawEps)
    IN IF dz.status # "ok"
       THEN Raised(dz.status, dz.draws, <<"_draw_z", "_parse_parameters">>) @@ [z |-> NoZ]
       ELSE [status |-> "ok",
             value |-> _transform_z_to_x(dz.z_phi, dz.z_eps, s._latent_dim, Den(s._latent_dim)),
             draws |-> dz.draws,
             trace |-> <<"_draw_z", "_parse_parameters", "_transform_z_to_x">>,
             z |-> [held |-> TRUE, z_phi |-> dz.z_phi, z_eps |-> dz.z_eps]]

\* sample that falls back to the prior's midpoint when parameters is None
sample_DefaultParameters(s, n, p, rawPhi, rawEps) ==
    sample_body(s, n, IF p.none THEN Array(<<0, 0>>) ELSE p, rawPhi, rawEps)

sample(s, n, p, rawPhi, rawEps) ==
    IF p.none
    THEN Raised("AssertionError", 0, <<>>) @@ [z |-> NoZ]
    ELSE sample_body(s, n, p, rawPhi, rawEps)

\* x, parameters: the caller's arrays as the call leaves them (reshape(-1, 2) is a
\* view of parameters that is only read)
log_density(s, xbuf, p, precise) ==
    IF p.none
    THEN Raised("AssertionError", 0, <<>>) @@ [x |-> xbuf, parameters |-> p]
    ELSE LET t == _transform_x_to_z(xbuf, s._latent_dim, Den(s._latent_dim))
             ld == _log_density(s, t.z_phi, t.z_eps, p.data, precise)
         IN IF ld.status # "ok"
            THEN Raised(ld.status, 0, <<"_transform_x_to_z", "_log_density", "_parse_parameters">>)
                    @@ [x |-> t.x, parameters |-> p]
            ELSE [status |-> "ok", value |-> ld.value, draws |-> 0,
                  trace |-> <<"_transform_x_to_z", "_log_density", "_parse_parameters",
                              "_generate_equivalent_coordinates">>,
                  x |-> t.x, parameters |-> p]

distance_from_manifold(s, xbuf) ==
    LET t == _transform_x_to_z(xbuf, s._latent_dim, Den(s._latent_dim))
    IN [status |-> "ok",
        value |-> [i \in 1..Len(xbuf) |-> np_sqrt(SumSq(t.z_eps[i], 1, Len(t.z_eps[i])))],
        draws |-> 0, trace |-> <<"_transform_x_to_z">>, x |-> t.x]

\* uniform.rvs(loc=-1, scale=2): u is the flat list of the uniform draws of [0, 1),
\* in units of 1 / (2 * ParamScale)
sample_from_prior(n, u) ==
    [status |-> "ok",
     value |-> [i \in 1..n |-> [c \in 1..parameter_dim |->
                    -ParamScale + u[parameter_dim * (i - 1) + c]]],
     draws |-> n * parameter_dim, trace |-> <<>>]

\* a log density: minus infinity, or a number of terms log(0.5)
NegInf == [neginf |-> TRUE, halves |-> 0]
LogHalves(c) == [neginf |-> FALSE, halves |-> c]
LAdd(a, b) == IF a.neginf \/ b.neginf THEN NegInf ELSE LogHalves(a.halves + b.halves)

\* uniform_logpdf with an open support
uniform_logpdf_Open(t) == IF -ParamScale < t /\ t < ParamScale THEN LogHalves(1) ELSE NegInf

\* uniform.logpdf(t, loc=-1, scale=2): the support is the closed interval
uniform_logpdf(t) == IF -ParamScale <= t /\ t <= ParamScale THEN LogHalves(1) ELSE NegInf

RECURSIVE LSum(_, _, _)
LSum(pdata, lo, hi) ==
    IF lo > hi THEN LogHalves(0) ELSE LAdd(uniform_logpdf(pdata[lo]), LSum(pdata, lo + 1, hi))

evaluate_log_prior(pdata) ==
    IF Len(pdata) % parameter_dim # 0
    THEN Raised("ValueError", 0, <<>>)
    ELSE [status |-> "ok",
          value |-> [i \in 1..(Len(pdata) \div parameter_dim) |->
                        LSum(pdata, parameter_dim * (i - 1) + 1, parameter_dim * i)],
          draws |-> 0, trace |-> <<>>]

(***************************************************************************)
(* State.                                                                  *)
(*   sim         the simulator object (NoSim: none)                        *)
(*   x           the data array the caller holds (the last one sample      *)
(*               returned), as the last call left it                       *)
(*   parameters  the parameter array the caller passed to the last call    *)
(*               (or got from sample_from_prior), as the call left it      *)
(*   z           the latent arrays behind x: (z_phi, z_eps) as _draw_z     *)
(*               drew them in the last successful sample; for the          *)
(*               specification of _generate_equivalent_coordinates, the    *)
(*               z_phi it is called with                                   *)
(*   result      the outcome of the last call                              *)
(***************************************************************************)
Res(op, args, r) ==
    [op |-> op, args |-> args, status |-> r.status, value |-> r.value,
     draws |-> r.draws, trace |-> r.trace]

NoResult == Res("none", <<>>, Raised("none", 0, <<>>))

Init ==
    /\ sim = NoSim
    /\ x = NoX
    /\ parameters = None
    /\ z = NoZ
    /\ result = NoResult

Construct(latent_dim, data_dim, min_width, max_width, epsilon) ==
    /\ ~sim.constructed
    /\ sim' = __init__(latent_dim, data_dim, min_width, max_width, epsilon)
    /\ result' = Res("__init__", <<latent_dim, data_dim, min_width, max_width, epsilon>>,
                     Raised(IF sim'.constructed THEN "ok" ELSE "AssertionError", 0, <<>>))
    /\ UNCHANGED <<x, parameters, z>>

Sample(n, p, rawPhi, rawEps) ==
    /\ sim.constructed
    /\ LET r == sample(sim, n, p, rawPhi, rawEps)
       IN /\ result' = Res("sample", <<n, p>>, r)
          /\ x' = IF r.status = "ok" THEN [held |-> TRUE, data |-> r.value] ELSE x
          /\ z' = IF r.status = "ok" THEN r.z ELSE z
    /\ parameters' = p
    /\ UNCHANGED sim

LogDensity(p, precise) ==
    /\ sim.constructed
    /\ x.held
    /\ LET r == log_density(sim, x.data, p, precise)
       IN /\ result' = Res("log_density", <<p, precise>>, r)
          /\ x' = [x EXCEPT !.data = r.x]
          /\ parameters' = r.parameters
    /\ UNCHANGED <<sim, z>>

DistanceFromManifold ==
    /\ sim.constructed
    /\ x.held
    /\ LET r == distance_from_manifold(sim, x.data)
       IN /\ result' = Res("distance_from_manifold", <<>>, r)
          /\ x' = [x EXCEPT !.data = r.x]
    /\ UNCHANGED <<sim, parameters, z>>

SampleFromPrior(n, u) ==
    /\ sim.constructed
    /\ LET r == sample_from_prior(n, u)
       IN /\ result' = Res("sample_from_prior", <<n>>, r)
          /\ parameters' = Array(Flatten(r.value, parameter_dim))
    /\ UNCHANGED <<sim, x, z>>

EvaluateLogPrior(p) ==
    /\ sim.constructed
    /\ ~p.none
    /\ result' = Res("evaluate_log_prior", <<p>>, evaluate_log_prior(p.data))
    /\ parameters' = p
    /\ UNCHANGED <<sim, x, z>>

(***************************************************************************)
(* Spec: the life of one simulator object.                                 *)
(***************************************************************************)
LatentArgs == 0..(MaxDataDim - 1)
DataArgs == 1..MaxDataDim
MinWidthArgs == {0, 1}
MaxWidthArgs == {1, TwoPi, TwoPi + 1}
EpsilonArgs == {0, 1}

\* the parameter arrays passed for a batch of n rows: an odd number of components, one
\* row, n rows and n + 1 rows, filled with the prior's midpoint or a corner of its box
ParamFill == {<<0, 0>>, <<-ParamScale, ParamScale>>}
ParamArrays(n) ==
    {Array([j \in 1..len |-> fill[((j - 1) % parameter_dim) + 1]]) :
        len \in {1, parameter_dim, parameter_dim * n, parameter_dim * (n + 1)}, fill \in ParamFill}

\* the draws of a batch of at most MaxCells numbers: every row is one of two rows, and
\* the rows repeat with period 2
RowPhi(pat, k) == [c \in 1..k |-> IF pat = 1 THEN 1 ELSE TwoPi + 8]
RowEps(pat, m) == [c \in 1..m |-> IF pat = 1 THEN 0 ELSE IF c = 1 THEN 3 ELSE IF c = 2 THEN 4 ELSE 0]
BatchPatterns(n) == {pat \in [1..n -> {1, 2}] : \A i \in 3..n : pat[i] = pat[i - 2]}

\* the uniform draws of sample_from_prior: all the lowest, or all the highest
PriorDraws(n) == {[j \in 1..(parameter_dim * n) |-> v] : v \in {0, 2 * ParamScale - 1}}

Next ==
    \/ \E ld \in LatentArgs, dd \in DataArgs, wmin \in MinWidthArgs, wmax \in MaxWidthArgs,
          eps \in EpsilonArgs : Construct(ld, dd, wmin, wmax, eps)
    \/ \E n \in 0..MaxN : \E p \in ParamArrays(n) \cup {None, parameters}, pat \in BatchPatterns(n) :
          /\ n * sim._data_dim <= MaxCells
          /\ Sample(n, p, [i \in 1..n |-> RowPhi(pat[i], sim._latent_dim)],
                          [i \in 1..n |-> RowEps(pat[i], sim._data_dim - sim._latent_dim)])
    \/ \E p \in ParamArrays(Len(x.data)) \cup {None, parameters}, precise \in BOOLEAN :
          LogDensity(p, precise)
    \/ DistanceFromManifold
    \/ \E n \in 0..MaxN : \E u \in PriorDraws(n) : SampleFromPrior(n, u)
    \/ \E p \in ParamArrays(1) \cup {parameters} : EvaluateLogPrior(p)

Spec == Init /\ [][Next]_vars

(***************************************************************************)
(* SpecTransform: the two embeddings, applied to what sample returns.      *)
(* Init: a simulator and a batch x it sampled, over every draw of the      *)
(* angle grid; the radial noise makes the radius negative, zero and        *)
(* positive.                                                               *)
(***************************************************************************)
RawAngles == -1..TwoPi
RawNoise == {-2, -1, 0, 1}

InitTransform ==
    \E k \in 1..(MaxDataDim - 1), d \in 2..MaxDataDim, n \in 1..MaxN :
        /\ d > k
        /\ n * d <= MaxCells
        /\ \E rawPhi \in [1..n -> [1..k -> RawAngles]], rawEps \in [1..n -> [1..(d - k) -> RawNoise]] :
              LET s == __init__(k, d, 1, TwoPi, 1)
                  r == sample(s, n, Array(<<0, 0>>), rawPhi, rawEps)
              IN /\ sim = s
                 /\ x = [held |-> TRUE, data |-> r.value]
                 /\ parameters = Array(<<0, 0>>)
                 /\ z = r.z
                 /\ result = Res("sample", <<n, Array(<<0, 0>>)>>, r)

InverseMap ==
    /\ result.op \in {"sample", "_transform_z_to_x"}
    /\ LET t == _transform_x_to_z(x.data, sim._latent_dim, Den(sim._latent_dim))
       IN /\ result' = Res("_transform_x_to_z", <<>>,
                           [status |-> "ok", value |-> [z_phi |-> t.z_phi, z_eps |-> t.z_eps],
                            draws |-> 0, trace |-> <<>>])
          /\ x' = [x EXCEPT !.data = t.x]
    /\ UNCHANGED <<sim, parameters, z>>

ForwardMap ==
    /\ result.op = "_transform_x_to_z"
    /\ result' = Res("_transform_z_to_x", <<>>,
                     [status |-> "ok",
                      value |-> _transform_z_to_x(result.value.z_phi, result.value.z_eps,
                                                  sim._latent_dim, Den(sim._latent_dim)),
                      draws |-> 0, trace |-> <<>>])
    /\ UNCHANGED <<sim, x, parameters, z>>

NextTransform == InverseMap \/ ForwardMap

SpecTransform == InitTransform /\ [][NextTransform]_vars

(***************************************************************************)
(* SpecCoords: _generate_equivalent_coordinates on every angle vector of   *)
(* a range that holds negative angles, angles of every quadrant and        *)
(* angles beyond 2 pi.                                                     *)
(***************************************************************************)
AngleInputs == (-Pi)..(TwoPi + Pi)

InitCoords ==
    \E k \in 1..(MaxDataDim - 1) : \E row \in [1..k -> AngleInputs] :
        /\ sim = __init__(k, k + 1, 1, TwoPi, 1)
        /\ x = NoX
        /\ parameters = None
        /\ z = [held |-> TRUE, z_phi |-> <<row>>, z_eps |-> <<>>]
        /\ result = NoResult

GenerateEquivalentCoordinates(precise) ==
    /\ LET g == _generate_equivalent_coordinates(sim._latent_dim, z.z_phi, precise)
       IN /\ result' = Res("_generate_equivalent_coordinates", <<precise>>,
                           [status |-> "ok", value |-> g.yields, draws |-> 0, trace |-> <<>>])
          /\ z' = [z EXCEPT !.z_phi = g.z_phi]
    /\ UNCHANGED <<sim, x, parameters>>

NextCoords == \E precise \in BOOLEAN : GenerateEquivalentCoordinates(precise)

SpecCoords == InitCoords /\ [][NextCoords]_vars

(***************************************************************************)
(* SpecParse: _parse_parameters for every simulator the constructor        *)
(* accepts, on parameter arrays of 0..MaxN rows over the prior's box.      *)
(***************************************************************************)
WidthPairs == {<<1, 4>>, <<1, TwoPi>>, <<5, 6>>}
BoxValues == {-ParamScale, 1, ParamScale}
BoxArrays == UNION {[1..(parameter_dim * m) -> BoxValues] : m \in 0..MaxN}

InitParse ==
    \E k \in 0..(MaxDataDim - 1), w \in WidthPairs, pdata \in BoxArrays :
        /\ sim = __init__(k, k + 1, w[1], w[2], 1)
        /\ x = NoX
        /\ parameters = Array(pdata)
        /\ z = NoZ
        /\ result = NoResult

ParseParameters(n) ==
    /\ ~parameters.none
    /\ LET pr == _parse_parameters(sim, n, parameters.data)
       IN result' = Res("_parse_parameters", <<n>>,
                        [status |-> pr.status, value |-> [phases |-> pr.phases, widths |-> pr.widths],
                         draws |-> 0, trace |-> <<>>])
    /\ UNCHANGED <<sim, x, parameters, z>>

NextParse == \E n \in 0..MaxN : ParseParameters(n)

SpecParse == InitParse /\ [][NextParse]_vars

(***************************************************************************)
(* SpecPrior: sample_from_prior over every draw of the grid and            *)
(* evaluate_log_prior on what it returned and on arrays in and around the  *)
(* box.                                                                    *)
(***************************************************************************)
UniformDraws == 0..(2 * ParamScale - 1)
PriorValues == (-2 * ParamScale)..(2 * ParamScale)
PriorArrays == {Array(pdata) : pdata \in UNION {[1..len -> PriorValues] : len \in 0..parameter_dim}}

InitPrior ==
    /\ sim = __init__(1, 2, 1, TwoPi, 1)
    /\ x = NoX
    /\ parameters = None
    /\ z = NoZ
    /\ result = NoResult

NextPrior ==
    \/ \E n \in 0..(MaxCells \div parameter_dim) :
          \E u \in [1..(parameter_dim * n) -> UniformDraws] : SampleFromPrior(n, u)
    \/ \E p \in PriorArrays \cup {parameters} : EvaluateLogPrior(p)

SpecPrior == InitPrior /\ [][NextPrior]_vars

(***************************************************************************)
(* The claims.                                                             *)
(***************************************************************************)

\* C1: every simulator whose construction succeeds satisfies data_dim > latent_dim >= 1,
\* epsilon > 0 and 0 < min_width < max_width <= 2 pi, and construction with arguments
\* that violate one of these conditions fails and yields no object.
C1_ConstructorEnforcesInvariants ==
    /\ sim.constructed =>
          /\ sim._data_dim > sim._latent_dim /\ sim._latent_dim >= 1
          /\ sim._epsilon > 0
          /\ 0 < sim._minwidth /\ sim._minwidth < sim._maxwidth /\ sim._maxwidth <= TwoPi
    /\ result.op = "__init__" =>
          LET a == result.args
              holds == /\ a[2] > a[1] /\ a[1] >= 1
                       /\ a[5] > 0
                       /\ 0 < a[3] /\ a[3] < a[4] /\ a[4] <= TwoPi
          IN /\ holds => result.status = "ok" /\ sim.constructed
             /\ ~holds => result.status = "AssertionError" /\ ~sim.constructed

\* C2: sample(n, None) and log_density(x, None) raise the assertion error before any
\* random number is drawn and before any helper is entered; they return no value and
\* leave the caller's array and the latent draw behind it as they were.
C2_NoneParametersFailFirst ==
    [][(\/ result'.op = "sample" /\ result'.args[2].none
        \/ result'.op = "log_density" /\ result'.args[1].none)
       => /\ result'.status = "AssertionError"
          /\ result'.draws = 0
          /\ result'.trace = <<>>
          /\ result'.value = <<>>
          /\ x' = x /\ z' = z /\ sim' = sim]_vars

C2_Witness ==
    /\ result.op = "log_density" /\ result.args[1].none
    /\ result.status = "AssertionError"
    /\ x.held /\ Len(x.data) = MaxN

AtPole(row, k) == row[k] = 0 /\ row[k + 1] = 0

InRange(lo, v, hi) == v # NaN /\ lo <= v /\ v <= hi

\* C4 (as stated): for any x that sample produced, _transform_x_to_z followed by
\* _transform_z_to_x reproduces x row by row, the recovered non-final angles lie in
\* [0, pi] and the final angle in [0, 2 pi).
C4_RoundTripEverywhere ==
    LET k == sim._latent_dim
    IN /\ result.op = "_transform_z_to_x" => result.value = x.data
       /\ result.op = "_transform_x_to_z" =>
             \A i \in 1..Len(x.data) :
                /\ \A c \in 1..(k - 1) : InRange(0, result.value.z_phi[i][c], Pi)
                /\ InRange(0, result.value.z_phi[i][k], TwoPi - 1)

\* C4 (amended): the same, for the rows of x that are not on a coordinate pole; for a
\* row on a pole the inverse map divides 0 by 0 and the final angle it recovers is nan.
C4_RoundTripOffPoles ==
    LET k == sim._latent_dim
    IN /\ result.op = "_transform_z_to_x" =>
             /\ Len(result.value) = Len(x.data)
             /\ \A i \in 1..Len(x.data) :
                   IF AtPole(x.data[i], k)
                   THEN result.value[i][k + 1] = NaN
                   ELSE result.value[i] = x.data[i]
       /\ result.op = "_transform_x_to_z" =>
             \A i \in 1..Len(x.data) :
                IF AtPole(x.data[i], k)
                THEN result.value.z_phi[i][k] = NaN
                ELSE /\ \A c \in 1..(k - 1) : InRange(0, result.value.z_phi[i][c], Pi)
                     /\ InRange(0, result.value.z_phi[i][k], TwoPi - 1)

\* a batch of two different rows, one of negative radius, none on a pole, reproduced
C4_Witness ==
    /\ result.op = "_transform_z_to_x"
    /\ Len(x.data) = 2 /\ x.data[1] # x.data[2]
    /\ \A i \in 1..2 : ~AtPole(x.data[i], sim._latent_dim)
    /\ z.z_eps[1][1] < -Den(sim._latent_dim)
    /\ z.z_phi[2][1] > Pi
    /\ result.value = x.data

\* C5: replacing one non-final angle a of z_phi by -a or 2 pi - a, or the final angle a
\* by a - 2 pi or a + 2 pi, makes _generate_equivalent_coordinates yield the same
\* canonical vector and the same images; so does replacing z_phi by its canonical
\* vector.
C5_SymmetricPreimagesSameCoordinates ==
    result.op = "_generate_equivalent_coordinates" =>
        LET k == sim._latent_dim
            precise == result.args[1]
            yields(zp) == _generate_equivalent_coordinates(k, zp, precise).yields
        IN /\ \A c \in 1..(k - 1) :
                /\ yields(SetColumn(z.z_phi, c, Negate(Column(z.z_phi, c)))) = result.value
                /\ yields(SetColumn(z.z_phi, c, Reflect(Column(z.z_phi, c)))) = result.value
           /\ yields(SetColumn(z.z_phi, k, ShiftDown(Column(z.z_phi, k)))) = result.value
           /\ yields(SetColumn(z.z_phi, k, ShiftUp(Column(z.z_phi, k)))) = result.value
           /\ yields(result.value[1]) = result.value

\* a polar angle beyond pi and an azimuthal angle beyond 2 pi, both brought back
C5_Witness ==
    /\ result.op = "_generate_equivalent_coordinates"
    /\ sim._latent_dim = 2
    /\ z.z_phi[1][1] > Pi /\ z.z_phi[1][1] < TwoPi
    /\ z.z_phi[1][2] > TwoPi
    /\ result.value[1] = <<<<TwoPi - z.z_phi[1][1], z.z_phi[1][2] - TwoPi>>>>

\* the coordinates in which image t differs from the canonical vector
Differing(value, t) == {c \in 1..Len(value[1][1]) : value[t][1][c] # value[1][1][c]}

\* C10 (as stated): the generator yields 1 + 2 (latent_dim - 1) + 2 vectors and each
\* image differs from the canonical vector in exactly one coordinate.
C10_ImagesDifferInOneCoordinate ==
    result.op = "_generate_equivalent_coordinates" =>
        /\ Len(result.value) = 1 + 2 * (sim._latent_dim - 1) + 2
        /\ \A t \in 2..Len(result.value) : Cardinality(Differing(result.value, t)) = 1

\* C10 (amended): the generator yields 1 + 2 (latent_dim - 1) + 2 vectors, for both
\* values of precise: the canonical vector, then for each non-final coordinate the
\* vector with that angle negated and the one with it reflected to 2 pi - angle, then
\* the vectors with the final angle shifted by - 2 pi and by + 2 pi.  An image differs
\* from the canonical vector in that one coordinate, and in none when the angle is 0
\* (negation) or pi (reflection).
C10_ImagesChangeOneCoordinate ==
    result.op = "_generate_equivalent_coordinates" =>
        LET k == sim._latent_dim
            v == result.value
            canon == v[1][1]
        IN /\ Len(v) = 1 + 2 * (k - 1) + 2
           /\ \A dim \in 1..(k - 1) :
                /\ v[2 * dim] = <<[canon EXCEPT ![dim] = -canon[dim]]>>
                /\ v[2 * dim + 1] = <<[canon EXCEPT ![dim] = TwoPi - canon[dim]]>>
                /\ Differing(v, 2 * dim) = IF canon[dim] = 0 THEN {} ELSE {dim}
                /\ Differing(v, 2 * dim + 1) = IF canon[dim] = Pi THEN {} ELSE {dim}
           /\ v[2 * k] = <<[canon EXCEPT ![k] = canon[k] - TwoPi]>>
           /\ v[2 * k + 1] = <<[canon EXCEPT ![k] = canon[k] + TwoPi]>>
           /\ Differing(v, 2 * k) = {k} /\ Differing(v, 2 * k + 1) = {k}

C10_Witness ==
    /\ result.op = "_generate_equivalent_coordinates"
    /\ result.args[1]
    /\ sim._latent_dim = 2
    /\ Len(result.value) = 5
    /\ result.value[1][1][1] = 0
    /\ result.value[2] = result.value[1]
    /\ result.value[3] # result.value[1]

\* C6: sample_from_prior(n) returns n vectors of 2 components in [-1, 1], each with a
\* finite log prior; evaluate_log_prior returns -inf for a vector with a component
\* outside [-1, 1] and the sum of two terms log 0.5 for a vector of the closed box.
C6_PriorBox ==
    /\ result.op = "sample_from_prior" =>
          /\ Len(result.value) = result.args[1]
          /\ \A i \in 1..Len(result.value) :
                /\ Len(result.value[i]) = 2
                /\ \A c \in 1..2 : -ParamScale <= result.value[i][c] /\ result.value[i][c] <= ParamScale
          /\ evaluate_log_prior(parameters.data).value
                = [i \in 1..Len(result.value) |-> LogHalves(2)]
    /\ (result.op = "evaluate_log_prior" /\ result.status = "ok") =>
          LET pdata == result.args[1].data
              outside(t) == t < -ParamScale \/ t > ParamScale
          IN /\ Len(result.value) = Len(pdata) \div 2
             /\ \A i \in 1..Len(result.value) :
                   result.value[i] = IF outside(pdata[2 * i - 1]) \/ outside(pdata[2 * i])
                                     THEN NegInf ELSE LogHalves(2)

\* a vector on the boundary of the box
C6_Witness ==
    /\ result.op = "evaluate_log_prior"
    /\ result.args[1].data = <<-ParamScale, ParamScale>>
    /\ result.value = <<LogHalves(2)>>

\* C7: sample(n, parameters) returns n rows of data_dim columns when parameters has 1
\* row or n rows, and raises for every other number of rows.
C7_SampleShape ==
    (/\ result.op = "sample"
     /\ ~result.args[2].none
     /\ Len(result.args[2].data) % 2 = 0)
    => LET n == result.args[1]
           m == Len(result.args[2].data) \div 2
       IN IF m = 1 \/ m = n
          THEN /\ result.status = "ok"
               /\ Len(result.value) = n
               /\ \A i \in 1..n : Len(result.value[i]) = sim._data_dim
          ELSE result.status # "ok"

\* C8: _parse_parameters gives every latent dimension of sample i the width
\* min_width + (1 + t0) / 2 * (max_width - min_width) of its parameter row (t0, t1),
\* which lies in [min_width, max_width] and is min_width at t0 = -1 and max_width at
\* t0 = 1; every latent dimension but the last the phase pi / 2, and the last the
\* phase pi / 2 + (1 + t1) / 2 * pi of [pi / 2, 3 pi / 2]; row i of the result is what
\* the parameter row of sample i gives on its own.
C8_WidthsAndPhases ==
    (result.op = "_parse_parameters" /\ result.status = "ok") =>
        LET n == result.args[1]
            k == sim._latent_dim
            pdata == parameters.data
            m == Len(pdata) \div 2
            row(i) == IF m = 1 THEN 1 ELSE i
            t0(i) == pdata[2 * row(i) - 1]
            t1(i) == pdata[2 * row(i)]
            alone(i) == _parse_parameters(sim, 1, <<t0(i), t1(i)>>)
            w == result.value.widths
            ph == result.value.phases
        IN /\ Len(w) = n /\ Len(ph) = n
           /\ \A i \in 1..n :
                /\ Len(w[i]) = k /\ Len(ph[i]) = k
                /\ \A c \in 1..k :
                      /\ w[i][c] = ParseScale * sim._minwidth
                                   + (ParamScale + t0(i)) * (sim._maxwidth - sim._minwidth)
                      /\ ParseScale * sim._minwidth <= w[i][c]
                      /\ w[i][c] <= ParseScale * sim._maxwidth
                      /\ t0(i) = -ParamScale => w[i][c] = ParseScale * sim._minwidth
                      /\ t0(i) = ParamScale => w[i][c] = ParseScale * sim._maxwidth
                /\ \A c \in 1..(k - 1) : ph[i][c] = ParseScale * HalfPi
                /\ ph[i][k] = ParseScale * HalfPi + (ParamScale + t1(i)) * Pi
                /\ ParseScale * HalfPi <= ph[i][k] /\ ph[i][k] <= ParseScale * 3 * HalfPi
                /\ w[i] = alone(i).widths[1] /\ ph[i] = alone(i).phases[1]

\* two samples with parameter rows of their own, two latent dimensions
C8_Witness ==
    /\ result.op = "_parse_parameters" /\ result.status = "ok"
    /\ result.args[1] = 2 /\ Len(parameters.data) = 4
    /\ sim._latent_dim = 2
    /\ parameters.data[1] = -ParamScale /\ parameters.data[3] = ParamScale
    /\ result.value.widths[1] # result.value.widths[2]
    /\ result.value.phases[1] # result.value.phases[2]

\* C9: log_density and distance_from_manifold leave the caller's x and parameters as
\* they were, and no call changes a field of a constructed simulator.
C9_InputsAndSimulatorUnchanged ==
    [][/\ result'.op \in {"log_density", "distance_from_manifold"} => x' = x
       /\ result'.op = "log_density" => parameters' = result'.args[1]
       /\ sim.constructed => sim' = sim]_vars

C9_Witness ==
    /\ result.op = "log_density" /\ result.status = "ok"
    /\ Len(x.data) = MaxN
    /\ x.data[1][sim._latent_dim + 1] # result.value[1].z_eps[1]

(***************************************************************************)
(* SpecDriver: the data-generation script                                  *)
(* (src/experiments/datasets/dataset_preparation/generate_data.py) run     *)
(* with a conditional simulator.  The run is kept in result:               *)
(*   args    the split counts (train, paramscan, test, ood)                *)
(*   pc      the statement the script is at                                *)
(*   names   the script's variables parameters_train, parameters_val and   *)
(*           parameters_test: Unbound until assigned                       *)
(*   value   the files written so far, in order: the name each was saved   *)
(*           under and the number of rows of the array                     *)
(*   status  "running", "ok" after the last statement, or the exception    *)
(*           that ended the run                                            *)
(* x, parameters and z hold the arrays of the last simulator call.         *)
(* base.py, which defines default_parameters and sample_ood, and           *)
(* create_filename are not in src: default_parameters is taken to return   *)
(* the vector of parameter_dim zeros, sample_ood to return an array of n   *)
(* rows, and a file is known by the name passed to create_filename.        *)
(***************************************************************************)
Unbound == [bound |-> FALSE, none |-> TRUE, data |-> <<>>]
Bound(p) == [bound |-> TRUE, none |-> p.none, data |-> p.data]

\* simulator.parameter_dim() is not None: parameter_dim returns 2
conditional == TRUE

\* np.array([simulator.default_parameters() for _ in range(n)]).reshape((n, -1))
default_parameters_rows(n) == Array([j \in 1..(parameter_dim * n) |-> 0])

\* sample_ood(n, parameters): an array of n rows of data_dim columns
sample_ood(s, n, p) ==
    [status |-> "ok", value |-> [i \in 1..n |-> [c \in 1..s._data_dim |-> 0]],
     draws |-> 0, trace |-> <<>>, z |-> NoZ]

\* np.save(create_filename("sample", name, args), arr)
np_save(files, name, arr) == Append(files, [name |-> name, rows |-> Len(arr)])

DriverStart(train, paramscan, test, ood) ==
    [op |-> "generate_data", args |-> <<train, paramscan, test, ood>>,
     status |-> "running", value |-> <<>>, draws |-> 0, trace |-> <<"Hi!">>,
     pc |-> "prior",
     names |-> [parameters_train |-> Unbound, parameters_val |-> Unbound,
                parameters_test |-> Unbound]]

AtStatement(label) ==
    /\ result.op = "generate_data"
    /\ result.status = "running"
    /\ result.pc = label

\* the body of one split once its parameters p are at hand: the sampling call, whose
\* outcome is r, then the two np.save; names are the script's variables by then
Generate(split, n, p, r, names, next) ==
    /\ parameters' = p
    /\ IF r.status # "ok"
       THEN /\ result' = [result EXCEPT !.status = r.status, !.pc = "raised", !.names = names,
                                        !.draws = @ + r.draws]
            /\ UNCHANGED <<x, z>>
       ELSE /\ result' = [result EXCEPT
                   !.value = LET saved == np_save(@, "x_" \o split, r.value)
                             IN IF conditional
                                THEN np_save(saved, "theta_" \o split,
                                             Reshape(p.data, Len(p.data) \div parameter_dim, parameter_dim))
                                ELSE saved,
                   !.draws = @ + r.draws,
                   !.trace = Append(@, split),
                   !.names = names,
                   !.pc = next]
            /\ x' = [held |-> TRUE, data |-> r.value]
            /\ z' = r.z

\* a split whose count is 0
Skip(next) ==
    /\ result' = [result EXCEPT !.pc = next]
    /\ UNCHANGED <<x, parameters, z>>

\* line 58: parameters_train = simulator.sample_from_prior(args.train)
DriverPrior(u) ==
    /\ AtStatement("prior")
    /\ LET r == sample_from_prior(result.args[1], u)
           p == IF conditional THEN Array(Flatten(r.value, parameter_dim)) ELSE None
       IN /\ result' = [result EXCEPT !.names.parameters_train = Bound(p),
                                      !.draws = @ + r.draws, !.pc = "train"]
          /\ parameters' = p
    /\ UNCHANGED <<sim, x, z>>

\* lines 61-66
DriverTrain(rawPhi, rawEps) ==
    /\ AtStatement("train")
    /\ IF result.args[1] > 0
       THEN LET b == result.names.parameters_train
                p == [none |-> b.none, data |-> b.data]
            IN Generate("train", result.args[1], p,
                        sample(sim, result.args[1], p, rawPhi, rawEps),
                        result.names, "paramscan")
       ELSE Skip("paramscan")
    /\ UNCHANGED sim

\* lines 68-74
DriverParamscan(rawPhi, rawEps) ==
    /\ AtStatement("paramscan")
    /\ IF result.args[2] > 0
       THEN LET p == IF conditional THEN default_parameters_rows(result.args[2]) ELSE None
            IN Generate("paramscan", result.args[2], p,
                        sample(sim, result.args[2], p, rawPhi, rawEps),
                        [result.names EXCEPT !.parameters_val = Bound(p)], "test")
       ELSE Skip("test")
    /\ UNCHANGED sim

\* lines 76-82
DriverTest(rawPhi, rawEps) ==
    /\ AtStatement("test")
    /\ IF result.args[3] > 0
       THEN LET p == IF conditional THEN default_parameters_rows(result.args[3]) ELSE None
            IN Generate("test", result.args[3], p,
                        sample(sim, result.args[3], p, rawPhi, rawEps),
                        [result.names EXCEPT !.parameters_test = Bound(p)], "ood")
       ELSE Skip("ood")
    /\ UNCHANGED sim

\* lines 84-89: parameters_test is read at line 85; a name that was never assigned
\* raises NameError
DriverOod ==
    /\ AtStatement("ood")
    /\ IF result.args[4] > 0
       THEN LET b == result.names.parameters_test
                p == [none |-> b.none, data |-> b.data]
            IN IF ~b.bound
               THEN /\ result' = [result EXCEPT !.status = "NameError", !.pc = "raised"]
                    /\ UNCHANGED <<x, parameters, z>>
               ELSE Generate("ood", result.args[4], p, sample_ood(sim, result.args[4], p),
                             result.names, "done")
       ELSE Skip("done")
    /\ UNCHANGED sim

\* line 91: logger.info("All done! Have a nice day!")
DriverAllDone ==
    /\ AtStatement("done")
    /\ result' = [result EXCEPT !.status = "ok", !.trace = Append(@, "All done"), !.pc = "exit"]
    /\ UNCHANGED <<sim, x, parameters, z>>

\* a conditional simulator as load_simulator returns it, and the counts of the splits
SplitCounts == 0..MaxN

InitDriver ==
    \E k \in 1..(MaxDataDim - 1), train \in SplitCounts, paramscan \in SplitCounts,
       test \in SplitCounts, ood \in SplitCounts :
        /\ sim = __init__(k, k + 1, 1, TwoPi, 1)
        /\ x = NoX
        /\ parameters = None
        /\ z = NoZ
        /\ result = DriverStart(train, paramscan, test, ood)

DriverDraws(n) ==
    {<<[i \in 1..n |-> RowPhi(pat[i], sim._latent_dim)],
       [i \in 1..n |-> RowEps(pat[i], sim._data_dim - sim._latent_dim)]>> : pat \in BatchPatterns(n)}

NextDriver ==
    \/ \E u \in PriorDraws(result.args[1]) : DriverPrior(u)
    \/ \E d \in DriverDraws(result.args[1]) : DriverTrain(d[1], d[2])
    \/ \E d \in DriverDraws(result.args[2]) : DriverParamscan(d[1], d[2])
    \/ \E d \in DriverDraws(result.args[3]) : DriverTest(d[1], d[2])
    \/ DriverOod
    \/ DriverAllDone

SpecDriver == InitDriver /\ [][NextDriver]_vars

\* the files the driver is to write for the split counts args, in order
RECURSIVE ExpectedFiles(_, _)
ExpectedFiles(args, i) ==
    IF i > 4 THEN <<>>
    ELSE LET split == <<"train", "paramscan", "test", "ood">>[i]
         IN (IF args[i] > 0 THEN <<"x_" \o split, "theta_" \o split>> ELSE <<>>)
            \o ExpectedFiles(args, i + 1)

\* C11: for every combination of split counts (train, paramscan, test, ood) and a
\* conditional simulator, the run of the driver does not end with an exception, and
\* when it is at its last statement ("All done") it has written, in the order train,
\* paramscan, test, ood, the files x_<split> and theta_<split> of exactly the splits
\* whose count is positive.
C11_DriverWritesEverySplit ==
    result.op = "generate_data" =>
        /\ result.pc # "raised"
        /\ result.pc \in {"done", "exit"} =>
              [i \in 1..Len(result.value) |-> result.value[i].name] = ExpectedFiles(result.args, 1)

====
